---- MODULE Spec2Model ----
(***************************************************************************)
(* A model of the recommendation engine of the movie application           *)
(* (src/movie_recommender.py): the construction of the feature matrix, the *)
(* index map and the similarity matrix, and the public strategies.         *)
(*                                                                         *)
(* Conventions.  Python strings are sequences of one-character strings.    *)
(* Positions in the catalog are 1-based here (Python's are 0-based).       *)
(* A cosine similarity s >= 0 is kept as the exact fraction <<num, den>>   *)
(* of its square, so that similarities are compared without rounding.      *)
(***************************************************************************)
EXTENDS Integers, Sequences, FiniteSets, TLC

\* ------------------------------------------------------------------ bounds
MaxMovies == 3
MaxLimit == 2
BigMovies == 13
BigGenred == 2
MaxRotation == 0

\* -------------------------------------------------------- generic helpers
\* the function f itself, with its values computed once
Evaluated(f) == f @@ <<>>

Range(s) == {s[i] : i \in DOMAIN s}

RECURSIVE SumOver(_, _)
SumOver(S, f) ==
    IF S = {} THEN 0
    ELSE LET x == CHOOSE y \in S : TRUE IN f[x] + SumOver(S \ {x}, f)

RECURSIVE Times(_, _)
\* Python's  list * n
Times(s, n) == IF n <= 0 THEN <<>> ELSE s \o Times(s, n - 1)

RECURSIVE Flatten(_)
Flatten(ss) == IF ss = <<>> THEN <<>> ELSE Head(ss) \o Flatten(Tail(ss))

\* Python's  s[:k]  for a list s and any integer k
Prefix(s, k) ==
    IF k >= 0 THEN SubSeq(s, 1, IF k < Len(s) THEN k ELSE Len(s))
    ELSE SubSeq(s, 1, IF Len(s) + k > 0 THEN Len(s) + k ELSE 0)

\* the subsequence of s whose elements satisfy the membership in keep
RECURSIVE FilterIn(_, _)
FilterIn(s, keep) ==
    IF s = <<>> THEN <<>>
    ELSE IF Head(s) \in keep THEN <<Head(s)>> \o FilterIn(Tail(s), keep)
         ELSE FilterIn(Tail(s), keep)

\* list(S) for a Python set S: its elements in one iteration order
RECURSIVE Enumerate(_)
Enumerate(S) ==
    IF S = {} THEN <<>>
    ELSE LET x == CHOOSE y \in S : TRUE
         IN <<x>> \o Enumerate(S \ {x})

Reverse(s) == [k \in DOMAIN s |-> s[Len(s) + 1 - k]]

Rotate(s, r) == [k \in DOMAIN s |-> s[((k - 1 + r) % Len(s)) + 1]]

\* ------------------------------------------------------------------ strings
LowerChar(c) ==
    CASE c = "A" -> "a" [] c = "B" -> "b" [] c = "D" -> "d"
      [] c = "N" -> "n" [] c = "P" -> "p" [] c = "W" -> "w" [] OTHER -> c

\* str.lower()
Lower(s) == [i \in DOMAIN s |-> LowerChar(s[i])]

\* str.replace(' ', '_')
ReplaceSpace(s) == [i \in DOMAIN s |-> IF s[i] = " " THEN "_" ELSE s[i]]

\* Python's  needle in hay  for two strings
Contains(hay, needle) ==
    \E k \in 0..(Len(hay) - Len(needle)) :
        SubSeq(hay, k + 1, k + Len(needle)) = needle

Drama == <<"D", "r">>
DramaLower == <<"d", "r">>
Action == <<"A", "c">>
Western == <<"W", "e">>
Heist == <<"h", "e">>
AlPa == <<"A", "l", " ", "P">>
BoDo == <<"B", "o">>
Nolan == <<"N", "o", "l">>
NolanPart == <<"n", "o">>
AlPaUnder == <<"a", "l", "_", "p">>

\* ---------------------------------------------------------- catalog values
\* A cell of the table: a list, a string, or a missing value (None / NaN).
ListOf(items) == [kind |-> "list", items |-> items]
StrOf(chars) == [kind |-> "str", items |-> chars]
NoneVal == [kind |-> "none", items |-> <<>>]
NaNVal == [kind |-> "nan", items |-> <<>>]

\* A movie id as a caller or the table may hold it.
IntId(n) == [kind |-> "int", val |-> n]
StrId(n) == [kind |-> "str", val |-> n]       \* the numeric string "n"
FloatId(t) == [kind |-> "float", val |-> t]   \* the float t/10
TextId == [kind |-> "text", val |-> 0]        \* a non-numeric string
NoId == [kind |-> "none", val |-> 0]          \* None

\* Python's int(x): the value, or a ValueError / TypeError.
IntOf(raw) ==
    CASE raw.kind = "int" -> [ok |-> TRUE, val |-> raw.val]
      [] raw.kind = "str" -> [ok |-> TRUE, val |-> raw.val]
      [] raw.kind = "float" -> [ok |-> TRUE, val |-> raw.val \div 10]
      [] OTHER -> [ok |-> FALSE, val |-> 0]

\* Python's truth value of an id:  if movie.get('id')
Truthy(raw) ==
    CASE raw.kind = "none" -> FALSE
      [] raw.kind = "int" -> raw.val # 0
      [] raw.kind = "float" -> raw.val # 0
      [] OTHER -> TRUE

\* One row of the table (MovieRecord).  vote_average is in tenths.
Movie(id, g, k, c, d, va, vc, pop) ==
    [id |-> id, genres_list |-> g, keywords_list |-> k, cast_list |-> c,
     director |-> d, vote_average |-> va, vote_count |-> vc,
     popularity |-> pop]

\* The rows a catalog is drawn from; their ids are pairwise distinct.
MoviePool ==
    { Movie(IntId(1), ListOf(<<Action>>), ListOf(<<Heist>>),
            ListOf(<<AlPa, BoDo>>), StrOf(Nolan), 80, 100, 3),
      Movie(IntId(2), ListOf(<<Action, Drama>>), ListOf(<<>>),
            ListOf(<<AlPa>>), StrOf(Nolan), 50, 100, 2),
      Movie(IntId(3), ListOf(<<Drama>>), ListOf(<<>>),
            ListOf(<<BoDo>>), StrOf(<<>>), 60, 10, 5),
      Movie(IntId(4), NoneVal, NoneVal, NoneVal, NoneVal, 50, 100, 1),
      Movie(IntId(5), ListOf(<<Drama>>), ListOf(<<>>),
            ListOf(<<>>), NaNVal, 70, 60, 4),
      Movie(TextId, ListOf(<<Action>>), ListOf(<<>>),
            ListOf(<<>>), StrOf(<<>>), 50, 100, 6),
      Movie(IntId(7), ListOf(<<>>), ListOf(<<>>),
            ListOf(<<>>), StrOf(<<>>), 50, 100, 7) }

\* The rows of the catalogs on which the feature space is examined: every
\* cell is a list or a string.  Two rows differ by one genre only, one row has
\* names that differ by case or by space against underscore and a fourth
\* cast member, one row has no feature at all, and two rows share the id 1.
FeaturePool ==
    { Movie(IntId(1), ListOf(<<Action>>), ListOf(<<Heist>>),
            ListOf(<<AlPa, BoDo>>), StrOf(Nolan), 80, 100, 3),
      Movie(IntId(2), ListOf(<<Action, Drama>>), ListOf(<<>>),
            ListOf(<<AlPa>>), StrOf(Nolan), 50, 100, 2),
      Movie(IntId(3), ListOf(<<Drama>>), ListOf(<<>>),
            ListOf(<<AlPa>>), StrOf(Nolan), 60, 100, 5),
      Movie(IntId(4), ListOf(<<Drama, DramaLower>>), ListOf(<<Heist>>),
            ListOf(<<AlPa, AlPaUnder, BoDo, Western>>), StrOf(<<>>), 70, 100, 4),
      Movie(IntId(7), ListOf(<<>>), ListOf(<<>>),
            ListOf(<<>>), StrOf(<<>>), 50, 100, 7),
      Movie(IntId(1), ListOf(<<Drama>>), ListOf(<<>>),
            ListOf(<<>>), StrOf(Nolan), 50, 100, 1) }

FeatureColumns == {"genres_list", "keywords_list", "cast_list", "director"}
AllColumns == FeatureColumns \cup {"id", "vote_average", "vote_count", "popularity"}
BareColumns == {"id", "popularity"}

\* the sequences without repetition over S of length at most n
RECURSIVE Arrangements(_, _)
Arrangements(S, n) ==
    IF n = 0 THEN {<<>>}
    ELSE LET shorter == Arrangements(S, n - 1)
         IN shorter \cup
            { Append(s, x) : s \in {t \in shorter : Len(t) = n - 1},
                             x \in S }

Distinct(s) == \A i, j \in DOMAIN s : i # j => s[i] # s[j]

Catalogs(S, n) == {s \in Arrangements(S, n) : Distinct(s)}

Frame(cols, rows) == [present |-> TRUE, columns |-> cols, rows |-> rows]
NoFrame == [present |-> FALSE, columns |-> {}, rows |-> <<>>]

\* row.get(col): the cell, or None when the table has no such column
Cell(frame, i, col) ==
    IF col \in frame.columns THEN frame.rows[i][col] ELSE NoneVal

IsList(v) == v.kind = "list"

\* ------------------------------------------------- feature space builder
GenrePrefix == <<"g", "e", "n", "r", "e", "_">>
KwPrefix == <<"k", "w", "_">>
ActorPrefix == <<"a", "c", "t", "o", "r", "_">>
DirectorPrefix == <<"d", "i", "r", "e", "c", "t", "o", "r", "_">>

\* f"{prefix}{name.lower().replace(' ', '_')}"
Token(prefix, name) == prefix \o ReplaceSpace(Lower(name))

Tokens(prefix, names) == [k \in DOMAIN names |-> Token(prefix, names[k])]

GenreWeight == 3
KeywordWeight == 1
ActorWeight == 2
DirectorWeight == 3
TopCast == 3

\* the truth value of row.get('director')
DirectorTruthy(d) ==
    \/ d.kind = "nan"
    \/ d.kind = "str" /\ d.items # <<>>

\* the loop body raises: .lower() of a director that is not a string
FeatureRaises(frame, i) ==
    LET d == Cell(frame, i, "director")
    IN DirectorTruthy(d) /\ d.kind # "str"

\* movie_features built from the whole cast list
MovieFeaturesAllCast(frame, i) ==
    LET g == Cell(frame, i, "genres_list")
        k == Cell(frame, i, "keywords_list")
        c == Cell(frame, i, "cast_list")
        d == Cell(frame, i, "director")
    IN (IF IsList(g) THEN Times(Tokens(GenrePrefix, g.items), GenreWeight)
        ELSE <<>>)
       \o (IF IsList(k) THEN Times(Tokens(KwPrefix, k.items), KeywordWeight)
           ELSE <<>>)
       \o (IF IsList(c) THEN Times(Tokens(ActorPrefix, c.items), ActorWeight)
           ELSE <<>>)
       \o (IF DirectorTruthy(d)
           THEN Times(<<Token(DirectorPrefix, d.items)>>, DirectorWeight)
           ELSE <<>>)

\* movie_features of one row, as the list the loop body builds
MovieFeatures(frame, i) ==
    LET g == Cell(frame, i, "genres_list")
        k == Cell(frame, i, "keywords_list")
        c == Cell(frame, i, "cast_list")
        d == Cell(frame, i, "director")
    IN (IF IsList(g) THEN Times(Tokens(GenrePrefix, g.items), GenreWeight)
        ELSE <<>>)
       \o (IF IsList(k) THEN Times(Tokens(KwPrefix, k.items), KeywordWeight)
           ELSE <<>>)
       \o (IF IsList(c)
           THEN Times(Tokens(ActorPrefix, Prefix(c.items, TopCast)), ActorWeight)
           ELSE <<>>)
       \o (IF DirectorTruthy(d)
           THEN Times(<<Token(DirectorPrefix, d.items)>>, DirectorWeight)
           ELSE <<>>)

\* Counter(f)[tok]
Count(f, tok) == Cardinality({i \in DOMAIN f : f[i] = tok})

\* all_features
Vocabulary(frame) ==
    UNION {Range(MovieFeatures(frame, i)) : i \in DOMAIN frame.rows}

\* the iteration orders of the set all_features that line 78 may meet: the
\* order of a set of strings differs from one process to the next
ColumnOrders(all_features) ==
    LET one == Enumerate(all_features)
    IN {Rotate(one, r) : r \in 0..MaxRotation}
       \cup {Reverse(Rotate(one, r)) : r \in 0..MaxRotation}

\* the matrix filled by lines 77-82: one row of counts per movie, the column
\* k holding the counts of the token columns[k]
FeatureMatrixOf(frame, columns) ==
    [i \in DOMAIN frame.rows |->
        [k \in DOMAIN columns |-> Count(MovieFeatures(frame, i), columns[k])]]

\* {int(movie_id): idx for idx, movie_id in enumerate(df['id'])}
IndexRaises(frame) ==
    \E i \in DOMAIN frame.rows : ~IntOf(frame.rows[i].id).ok

\* an index map that sends every id to the first row
IndexMapOfFirstRow(frame) ==
    LET keys == {IntOf(frame.rows[i].id).val : i \in DOMAIN frame.rows}
    IN [key \in keys |-> 1]

IndexMapOf(frame) ==
    LET keys == {IntOf(frame.rows[i].id).val : i \in DOMAIN frame.rows}
    IN [key \in keys |->
          CHOOSE i \in DOMAIN frame.rows :
             /\ IntOf(frame.rows[i].id).val = key
             /\ \A j \in DOMAIN frame.rows :
                   IntOf(frame.rows[j].id).val = key => j <= i]

\* ------------------------------------------------------ similarity engine
Dot(u, v) == SumOver(DOMAIN u, [tok \in DOMAIN u |-> u[tok] * v[tok]])

\* the quotient taken without the care for a zero vector
Cos2Unguarded(u, v) ==
    LET d == Dot(u, v)
        nu == Dot(u, u)
        nv == Dot(v, v)
    IN <<d * d, nu * nv>>

\* the square of the cosine similarity of two count vectors, as <<num, den>>;
\* a zero vector has similarity 0 with every vector
Cos2(u, v) ==
    LET d == Dot(u, v)
        nu == Dot(u, u)
        nv == Dot(v, v)
    IN IF nu = 0 \/ nv = 0 THEN <<0, 1>> ELSE <<d * d, nu * nv>>

\* a > b for two such fractions
SimGreater(a, b) == a[1] * b[2] > b[1] * a[2]

\* cosine_similarity(X) raises when X has no column
SimilarityRaises(fm) == \A i \in DOMAIN fm : DOMAIN fm[i] = {}

SimilarityOf(fm) == [i \in DOMAIN fm |-> [j \in DOMAIN fm |-> Cos2(fm[i], fm[j])]]

NoMatrix == [isNone |-> TRUE, cells |-> <<>>]
Matrix(cells) == [isNone |-> FALSE, cells |-> cells]
EmptyMap == <<>>

\* ------------------------------------------------------- ranking helpers
\* sorted(range(1..n), key, reverse=True): a stable descending sort of the
\* positions 1..n, where above holds the pairs <<a, b>> with key(a) > key(b)
StableDesc(n, above) ==
    LET rank == Evaluated([i \in 1..n |->
                    1 + Cardinality({j \in 1..n :
                          \/ <<j, i>> \in above
                          \/ <<i, j>> \notin above /\ j < i})])
    IN Evaluated([p \in 1..n |-> CHOOSE i \in 1..n : rank[i] = p])

\* the pairs of positions 1..n whose keys are in strictly descending order
Above(n, key) == {ab \in (1..n) \X (1..n) : key[ab[1]] > key[ab[2]]}

\* the pairs in ascending order of the fractions
AboveSimAscending(n, key) ==
    {ab \in (1..n) \X (1..n) : SimGreater(key[ab[2]], key[ab[1]])}

\* the same for keys that are fractions
AboveSim(n, key) == {ab \in (1..n) \X (1..n) : SimGreater(key[ab[1]], key[ab[2]])}

\* what a call returns: a list of records, or that it raised
NoResult == [status |-> "none", list |-> <<>>]
Returned(list) == [status |-> "ok", list |-> list]
Raised == [status |-> "raised", list |-> <<>>]

\* a movie record as a strategy returns it: the catalog row at position idx,
\* with the extra (temporary) columns named in tmp
Rec(idx, tmp) == [idx |-> idx, tmp |-> tmp]
Records(positions, tmp) == [k \in DOMAIN positions |-> Rec(positions[k], tmp)]

\* ------------------------------------------------------- catalog accessor
\* data_handler.get_popular_movies(k): the k most popular rows
PopularOrder(frame) ==
    StableDesc(Len(frame.rows),
               Above(Len(frame.rows),
                     [i \in DOMAIN frame.rows |-> frame.rows[i].popularity]))

get_popular_movies(frame, k) ==
    IF ~frame.present \/ k <= 0 THEN <<>>
    ELSE Records(Prefix(PopularOrder(frame), k), {})

\* data_handler.get_trending_movies(k): the accessor's trending ranking
get_trending_movies(frame, k) ==
    IF ~frame.present \/ k <= 0 THEN <<>>
    ELSE Records(Prefix(StableDesc(Len(frame.rows),
                    Above(Len(frame.rows),
                          [i \in DOMAIN frame.rows |-> frame.rows[i].vote_count])), k), {})

\* data_handler.get_movie_recommendations(movie_id, k): the accessor's own
\* recommendations, either none or the most popular other movies
AccessorModes == {"nothing", "popular_others"}

get_movie_recommendations(frame, mode, raw, k) ==
    IF ~frame.present \/ k <= 0 \/ mode = "nothing" THEN <<>>
    ELSE LET others == {i \in DOMAIN frame.rows : frame.rows[i].id # raw}
         IN Records(Prefix(FilterIn(PopularOrder(frame), others), k), {})

\* ------------------------------------------------- similarity strategies
\* get_similar_movies_improved with the queried movie left in the ranking
get_similar_movies_improved_with_self(frame, sm, mi, raw, limit) ==
    IF sm.isNone \/ DOMAIN mi = {} THEN Returned(<<>>)
    ELSE IF ~IntOf(raw).ok THEN Returned(<<>>)
    ELSE IF IntOf(raw).val \notin DOMAIN mi THEN Returned(<<>>)
    ELSE LET movie_idx == mi[IntOf(raw).val]
             n == Len(sm.cells)
             row == sm.cells[movie_idx]
             sim_scores == StableDesc(n, AboveSim(n, row))
         IN Returned(Records(Prefix(sim_scores, limit), {}))

\* get_similar_movies_improved with the conversion outside the try block
get_similar_movies_improved_uncaught(frame, sm, mi, raw, limit) ==
    IF sm.isNone \/ DOMAIN mi = {} THEN Returned(<<>>)
    ELSE IF ~IntOf(raw).ok THEN Raised
    ELSE IF IntOf(raw).val \notin DOMAIN mi THEN Returned(<<>>)
    ELSE LET movie_idx == mi[IntOf(raw).val]
             n == Len(sm.cells)
             row == sm.cells[movie_idx]
             sim_scores == StableDesc(n, AboveSim(n, row))
             others == FilterIn(sim_scores, (1..n) \ {movie_idx})
         IN Returned(Records(Prefix(others, limit), {}))

\* get_similar_movies_improved(movie_id, limit), lines 123-155
get_similar_movies_improved(frame, sm, mi, raw, limit) ==
    IF sm.isNone \/ DOMAIN mi = {} THEN Returned(<<>>)
    ELSE IF ~IntOf(raw).ok THEN Returned(<<>>)        \* int() raised: except
    ELSE IF IntOf(raw).val \notin DOMAIN mi THEN Returned(<<>>)
    ELSE LET movie_idx == mi[IntOf(raw).val]
             n == Len(sm.cells)
             row == sm.cells[movie_idx]
             sim_scores == StableDesc(n, AboveSim(n, row))
             others == FilterIn(sim_scores, (1..n) \ {movie_idx})
         IN Returned(Records(Prefix(others, limit), {}))

\* get_similar_movies(movie_id, limit), lines 102-110
get_similar_movies(frame, sm, mi, mode, raw, limit) ==
    LET improved == get_similar_movies_improved(frame, sm, mi, raw, limit)
    IN IF improved.list # <<>> THEN improved
       ELSE Returned(get_movie_recommendations(frame, mode, raw, limit))

\* ----------------------------------------------------------- hybrid strategy
DiversityExtra == 10

\* the genre pass without the test for a new genre
RECURSIVE GenrePassNoNovelty(_, _, _, _, _)
GenrePassNoNovelty(frame, todo, selected, seen_genres, limit) ==
    IF todo = <<>> THEN selected
    ELSE LET g == Cell(frame, Head(todo), "genres_list")
         IN IF IsList(g)
            THEN IF Len(selected) + 1 >= limit
                 THEN Append(selected, Head(todo))
                 ELSE GenrePassNoNovelty(frame, Tail(todo),
                          Append(selected, Head(todo)), seen_genres, limit)
            ELSE GenrePassNoNovelty(frame, Tail(todo), selected, seen_genres, limit)

\* the first loop of lines 341-352 over the candidates still to visit
RECURSIVE GenrePass(_, _, _, _, _)
GenrePass(frame, todo, selected, seen_genres, limit) ==
    IF todo = <<>> THEN selected
    ELSE LET g == Cell(frame, Head(todo), "genres_list")
             movie_genres == IF IsList(g) THEN Range(g.items) ELSE {}
         IN IF IsList(g) /\ movie_genres \ seen_genres # {}
            THEN IF Len(selected) + 1 >= limit
                 THEN Append(selected, Head(todo))
                 ELSE GenrePass(frame, Tail(todo), Append(selected, Head(todo)),
                                seen_genres \cup movie_genres, limit)
            ELSE GenrePass(frame, Tail(todo), selected, seen_genres, limit)

\* the sum of the rows of fm at the positions of the list at (with repeats);
\* the profile vector is this sum divided by Len(at), which has the same cosine
ProfileSum(fm, at) ==
    [tok \in DOMAIN fm[1] |->
        SumOver(DOMAIN at, [k \in DOMAIN at |-> fm[at[k]][tok]])]

\* the candidate list with the watchlist movies left in
HybridCandidatesUnfiltered(fm, watchlist_indices, limit) ==
    LET n == Len(fm)
        profile == Evaluated(ProfileSum(fm, watchlist_indices))
        user_similarity == Evaluated([j \in 1..n |-> Cos2(profile, fm[j])])
        sim_scores == StableDesc(n, AboveSim(n, user_similarity))
    IN Prefix(sim_scores, limit + DiversityExtra)

\* the candidate list of lines 324-333
HybridCandidates(fm, watchlist_indices, limit) ==
    LET n == Len(fm)
        profile == Evaluated(ProfileSum(fm, watchlist_indices))
        user_similarity == Evaluated([j \in 1..n |-> Cos2(profile, fm[j])])
        sim_scores == StableDesc(n, AboveSim(n, user_similarity))
    IN Prefix(FilterIn(sim_scores, (1..n) \ Range(watchlist_indices)),
              limit + DiversityExtra)

\* the selection left as the genre pass made it
HybridFillNothing(movie_indices_list, picked, limit) == picked

\* lines 354-357: the remaining slots filled from the candidates in rank order
HybridFill(movie_indices_list, picked, limit) ==
    LET remaining == FilterIn(movie_indices_list,
                              Range(movie_indices_list) \ Range(picked))
    IN IF Len(picked) < limit
       THEN picked \o Prefix(remaining, limit - Len(picked))
       ELSE picked

\* HybridSelect without the final cut to limit
HybridSelectUncut(frame, movie_indices_list, limit) ==
    HybridFill(movie_indices_list,
               GenrePass(frame, movie_indices_list, <<>>, {}, limit), limit)

\* lines 336-360: the genre pass, the fill and the cut to limit
HybridSelect(frame, movie_indices_list, limit) ==
    LET picked == GenrePass(frame, movie_indices_list, <<>>, {}, limit)
    IN Prefix(HybridFill(movie_indices_list, picked, limit), limit)

\* the ids of a watchlist: movie.get('id') of every item
NoWatchlist == [kind |-> "none", items |-> <<>>]
Watchlist(ids) == [kind |-> "list", items |-> ids]

\* lines 305-314: the positions of the watchlist movies the index map knows,
\* or that int() raised on a watchlist id
WatchlistIndices(mi, watchlist) ==
    LET truthy == FilterIn(watchlist.items,
                           {r \in Range(watchlist.items) : Truthy(r)})
        watchlist_ids == [k \in DOMAIN truthy |-> IntOf(truthy[k]).val]
        valid_ids == FilterIn(watchlist_ids, DOMAIN mi)
    IN [raises |-> \E k \in DOMAIN truthy : ~IntOf(truthy[k]).ok,
        indices |-> [k \in DOMAIN valid_ids |-> mi[valid_ids[k]]]]

\* get_hybrid_recommendations giving the popular movies when similarity is
\* disabled
get_hybrid_recommendations_popular(frame, sm, mi, fm, watchlist, limit) ==
    IF watchlist.items = <<>> THEN Returned(<<>>)
    ELSE IF sm.isNone THEN Returned(get_popular_movies(frame, limit))
    ELSE LET w == WatchlistIndices(mi, watchlist)
         IN IF w.raises THEN Returned(<<>>)
            ELSE IF w.indices = <<>> THEN Returned(<<>>)
            ELSE Returned(Records(
                    HybridSelect(frame,
                        HybridCandidates(fm.cells, w.indices, limit), limit), {}))

\* get_hybrid_recommendations(watchlist, limit), lines 300-367
get_hybrid_recommendations(frame, sm, mi, fm, watchlist, limit) ==
    IF watchlist.items = <<>> \/ sm.isNone THEN Returned(<<>>)
    ELSE LET w == WatchlistIndices(mi, watchlist)
         IN IF w.raises THEN Returned(<<>>)           \* int() raised: except
            ELSE IF w.indices = <<>> THEN Returned(<<>>)
            ELSE Returned(Records(
                    HybridSelect(frame,
                        HybridCandidates(fm.cells, w.indices, limit), limit), {}))

\* ------------------------------------------------- personalized strategy
NoPrefs ==
    [kind |-> "none", favorite_genres |-> <<>>, favorite_directors |-> <<>>,
     favorite_actors |-> <<>>]
EmptyPrefs ==
    [kind |-> "empty", favorite_genres |-> <<>>, favorite_directors |-> <<>>,
     favorite_actors |-> <<>>]
Prefs(g, d, a) ==
    [kind |-> "dict", favorite_genres |-> g, favorite_directors |-> d,
     favorite_actors |-> a]

GenreScoreWeight == 2
DirectorBonus == 3
ActorScoreWeightDoubled == 3      \* the weight 1.5, doubled
MinVotes == 50

\* the genre score with names compared in lower case
GenreScoreIgnoringCase(favorite_genres, x) ==
    Cardinality({k \in DOMAIN favorite_genres :
        \E g \in Range(x) : Lower(g) = Lower(favorite_genres[k])})

\* lines 189: sum(1 for genre in favorite_genres if genre in x)
GenreScore(favorite_genres, x) ==
    Cardinality({k \in DOMAIN favorite_genres : favorite_genres[k] \in Range(x)})

\* line 196
DirectorScore(favorite_directors, x) ==
    IF \E k \in DOMAIN favorite_directors :
          Contains(Lower(x), Lower(favorite_directors[k]))
    THEN DirectorBonus ELSE 0

\* line 203
ActorScore(favorite_actors, x) ==
    Cardinality({k \in DOMAIN favorite_actors :
        \E c \in DOMAIN x : Contains(Lower(x[c]), Lower(favorite_actors[k]))})

SetMax(S) == CHOOSE x \in S : \A y \in S : y <= x
SetMin(S) == CHOOSE x \in S : \A y \in S : x <= y

\* lines 179-217: the score columns of a non-empty table.  Scores are kept
\* multiplied by 2 * (vote_avg_max - vote_avg_min) (by 2 when no rating is
\* added), which makes them integers and keeps their order and their sign.
PersonalScores(frame, prefs) ==
    LET rows == frame.rows
        cols == frame.columns
        use_genres == prefs.favorite_genres # <<>> /\ "genres_list" \in cols
        use_directors == prefs.favorite_directors # <<>> /\ "director" \in cols
        use_actors == prefs.favorite_actors # <<>> /\ "cast_list" \in cols
        has_votes == "vote_average" \in cols /\ "vote_count" \in cols
        averages == {rows[i].vote_average : i \in DOMAIN rows}
        vote_avg_max == SetMax(averages)
        vote_avg_min == SetMin(averages)
        use_rating == has_votes /\ vote_avg_max > vote_avg_min
        scale == IF use_rating THEN vote_avg_max - vote_avg_min ELSE 1
        genre_score(i) ==
            IF use_genres THEN GenreScore(prefs.favorite_genres, rows[i].genres_list.items)
            ELSE 0
        director_score(i) ==
            IF use_directors THEN DirectorScore(prefs.favorite_directors, rows[i].director.items)
            ELSE 0
        actor_score(i) ==
            IF use_actors THEN ActorScore(prefs.favorite_actors, rows[i].cast_list.items)
            ELSE 0
        rating(i) ==
            IF use_rating /\ rows[i].vote_count >= MinVotes
            THEN rows[i].vote_average - vote_avg_min ELSE 0
    IN [raises |->
           \/ use_genres /\ \E i \in DOMAIN rows : ~IsList(rows[i].genres_list)
           \/ use_directors /\ \E i \in DOMAIN rows : rows[i].director.kind # "str"
           \/ use_actors /\ \E i \in DOMAIN rows : ~IsList(rows[i].cast_list),
        tmp |-> {"score"}
                \cup (IF use_genres THEN {"genre_score"} ELSE {})
                \cup (IF use_directors THEN {"director_score"} ELSE {})
                \cup (IF use_actors THEN {"actor_score"} ELSE {})
                \cup (IF use_rating THEN {"rating_norm"} ELSE {}),
        scale |-> scale,
        rows |-> [i \in DOMAIN rows |->
                   [genre_score |-> genre_score(i),
                    director_score |-> director_score(i),
                    actor_score |-> actor_score(i),
                    score |-> 2 * scale * (GenreScoreWeight * genre_score(i) + director_score(i))
                              + ActorScoreWeightDoubled * scale * actor_score(i)
                              + 2 * rating(i)]]]

\* the positions of a list of records
Positions(recs) == [k \in DOMAIN recs |-> recs[k].idx]

\* PersonalSelect with the popular movies placed before the scored ones
PersonalSelectPaddedFirst(frame, score, tmp, limit) ==
    LET n == Len(frame.rows)
        order == StableDesc(n, Above(n, score))
        recommended == IF limit <= 0 THEN <<>> ELSE Prefix(order, limit)
        positive == FilterIn(recommended, {i \in 1..n : score[i] > 0})
        zero_score_count == Len(recommended) - Len(positive)
        popular_movies == Positions(get_popular_movies(frame, zero_score_count))
        existing_ids == {frame.rows[i].id : i \in Range(positive)}
        popular_df == FilterIn(popular_movies,
                         {i \in 1..n : frame.rows[i].id \notin existing_ids})
    IN IF Len(positive) < limit /\ zero_score_count > 0
       THEN IF Len(popular_movies) > 0
            THEN Records(Prefix(popular_df, limit - Len(positive)) \o positive, tmp)
            ELSE Records(positive, tmp)
       ELSE Records(recommended, tmp)

\* lines 219-242: the top scores, padded with popular movies
PersonalSelect(frame, score, tmp, limit) ==
    LET n == Len(frame.rows)
        order == StableDesc(n, Above(n, score))
        recommended == IF limit <= 0 THEN <<>> ELSE Prefix(order, limit)
        positive == FilterIn(recommended, {i \in 1..n : score[i] > 0})
        zero_score_count == Len(recommended) - Len(positive)
        popular_movies == Positions(get_popular_movies(frame, zero_score_count))
        existing_ids == {frame.rows[i].id : i \in Range(positive)}
        popular_df == FilterIn(popular_movies,
                         {i \in 1..n : frame.rows[i].id \notin existing_ids})
    IN IF Len(positive) < limit /\ zero_score_count > 0
       THEN IF Len(popular_movies) > 0
            THEN Records(positive \o Prefix(popular_df, limit - Len(positive)), tmp)
            ELSE Records(positive, tmp)
       ELSE Records(recommended, tmp)

\* get_personalized_recommendations(user_preferences, limit), lines 168-242
get_personalized_recommendations(frame, prefs, limit) ==
    IF prefs.kind # "dict" THEN Returned(get_popular_movies(frame, limit))
    ELSE IF ~frame.present THEN Raised                 \* None has no copy()
    ELSE IF Len(frame.rows) = 0 THEN Returned(<<>>)
    ELSE LET sc == PersonalScores(frame, prefs)
         IN IF sc.raises THEN Raised
            ELSE Returned(PersonalSelect(frame,
                     Evaluated([i \in DOMAIN sc.rows |-> sc.rows[i].score]),
                     sc.tmp, limit))

\* ---------------------------------------------------- watchlist strategy
SimilarPerItem == 5

\* the collected records in the order of their discovery, not sorted
FrequencyRankUnsorted(frame, all_similar, limit) ==
    LET idOf(r) == frame.rows[r.idx].id
        firsts == {k \in DOMAIN all_similar :
                      \A j \in 1..(k - 1) : idOf(all_similar[j]) # idOf(all_similar[k])}
        discovered == FilterIn([k \in DOMAIN all_similar |-> k], firsts)
        sorted_movies == [p \in DOMAIN discovered |-> all_similar[discovered[p]]]
        top_movies == Prefix(sorted_movies, limit)
        popular == get_popular_movies(frame, limit - Len(top_movies))
        existing_ids == {idOf(top_movies[k]) : k \in DOMAIN top_movies}
        fresh == FilterIn(popular, {r \in Range(popular) : idOf(r) \notin existing_ids})
    IN IF Len(top_movies) < limit
       THEN top_movies \o Prefix(fresh, limit - Len(top_movies))
       ELSE top_movies

\* lines 266-287: rank the collected records by frequency, pad with popular
FrequencyRank(frame, all_similar, limit) ==
    LET idOf(r) == frame.rows[r.idx].id
        firsts == {k \in DOMAIN all_similar :
                      \A j \in 1..(k - 1) : idOf(all_similar[j]) # idOf(all_similar[k])}
        discovered == FilterIn([k \in DOMAIN all_similar |-> k], firsts)
        count(k) == Cardinality({j \in DOMAIN all_similar :
                        idOf(all_similar[j]) = idOf(all_similar[k])})
        order == StableDesc(Len(discovered),
                     Above(Len(discovered),
                           Evaluated([p \in DOMAIN discovered |-> count(discovered[p])])))
        sorted_movies == [p \in DOMAIN order |-> all_similar[discovered[order[p]]]]
        top_movies == Prefix(sorted_movies, limit)
        popular == get_popular_movies(frame, limit - Len(top_movies))
        existing_ids == {idOf(top_movies[k]) : k \in DOMAIN top_movies}
        fresh == FilterIn(popular, {r \in Range(popular) : idOf(r) \notin existing_ids})
    IN IF Len(top_movies) < limit
       THEN top_movies \o Prefix(fresh, limit - Len(top_movies))
       ELSE top_movies

\* get_recommendations_for_watchlist returning nothing for an empty watchlist
get_recommendations_for_watchlist_empty(frame, sm, mi, fm, mode, watchlist, limit) ==
    IF watchlist.items = <<>> THEN Returned(<<>>)
    ELSE LET hybrid == get_hybrid_recommendations(frame, sm, mi, fm, watchlist, limit)
         IN IF hybrid.list # <<>> THEN hybrid
            ELSE LET all_similar ==
                         Flatten([k \in DOMAIN watchlist.items |->
                             get_similar_movies(frame, sm, mi, mode,
                                 watchlist.items[k], SimilarPerItem).list])
                 IN IF all_similar = <<>>
                    THEN Returned(get_popular_movies(frame, limit))
                    ELSE Returned(FrequencyRank(frame, all_similar, limit))

\* get_recommendations_for_watchlist(watchlist, limit), lines 246-287
get_recommendations_for_watchlist(frame, sm, mi, fm, mode, watchlist, limit) ==
    IF watchlist.items = <<>> THEN Returned(get_popular_movies(frame, limit))
    ELSE LET hybrid == get_hybrid_recommendations(frame, sm, mi, fm, watchlist, limit)
         IN IF hybrid.list # <<>> THEN hybrid
            ELSE LET all_similar ==
                         Flatten([k \in DOMAIN watchlist.items |->
                             get_similar_movies(frame, sm, mi, mode,
                                 watchlist.items[k], SimilarPerItem).list])
                 IN IF all_similar = <<>>
                    THEN Returned(get_popular_movies(frame, limit))
                    ELSE Returned(FrequencyRank(frame, all_similar, limit))

\* ------------------------------------------------------------ user manager
\* config.USERNAME_MIN_LENGTH and config.PASSWORD_MIN_LENGTH
USERNAME_MIN_LENGTH == 3
PASSWORD_MIN_LENGTH == 6

Ann == <<"A", "n", "n">>
Bob == <<"B", "o", "b">>
Dan == <<"D", "a", "n">>
Secret == <<"s", "e", "c", "r", "e", "t">>
Hunter == <<"h", "u", "n", "t", "e", "r">>

\* _hash_password: the SHA-256 digest of password + salt, kept as the text
\* that was digested
Salt == <<"m", "o", "v", "i", "e", "m", "a", "s", "t", "e", "r", "_", "s", "a", "l", "t">>
hash_password(password) == [sha256 |-> password \o Salt]

\* the user object of lines 47-64; created_at is a time stamp and left out
NewUser(user_id, username, password, email) ==
    [id |-> user_id, username |-> username,
     password_hash |-> hash_password(password), email |-> email,
     last_login |-> "None",
     profile |-> [display_name |-> username, bio |-> "",
                  preferences |-> [favorite_genres |-> <<>>,
                                   favorite_directors |-> <<>>,
                                   favorite_actors |-> <<>>]]]

\* the test of line 43 comparing the names as they are written
NameTakenExactly(stored, username) ==
    \E k \in DOMAIN stored : stored[k].username = username

\* line 43: a stored user has this name, ignoring case
NameTaken(stored, username) ==
    \E k \in DOMAIN stored : Lower(stored[k].username) = Lower(username)

\* lines 36-44: the message register refuses with, "" when it accepts
RegisterRefusal(stored, username, password) ==
    IF username = <<>> \/ Len(username) < USERNAME_MIN_LENGTH
    THEN "Username must be at least 3 characters"
    ELSE IF password = <<>> \/ Len(password) < PASSWORD_MIN_LENGTH
    THEN "Password must be at least 6 characters"
    ELSE IF NameTaken(stored, username) THEN "Username already exists"
    ELSE ""

\* lines 89-93: the place of the first stored user of this name, 0 for None
FindUser(stored, username) ==
    LET hits == {k \in DOMAIN stored : Lower(stored[k].username) = Lower(username)}
    IN IF hits = {} THEN 0 ELSE CHOOSE k \in hits : \A j \in hits : k <= j

\* login without the comparison of the password hashes
LoginOutcomeAnyPassword(stored, username, password) ==
    IF username = <<>> \/ password = <<>>
    THEN [ok |-> FALSE, message |-> "Username and password are required", user |-> 0]
    ELSE LET user == FindUser(stored, username)
         IN IF user = 0
            THEN [ok |-> FALSE, message |-> "Invalid username or password", user |-> 0]
            ELSE [ok |-> TRUE, message |-> "Login successful", user |-> user]

\* lines 85-100: what login answers and the user it found
LoginOutcome(stored, username, password) ==
    IF username = <<>> \/ password = <<>>
    THEN [ok |-> FALSE, message |-> "Username and password are required", user |-> 0]
    ELSE LET user == FindUser(stored, username)
         IN IF user = 0
            THEN [ok |-> FALSE, message |-> "Invalid username or password", user |-> 0]
            ELSE IF stored[user].password_hash # hash_password(password)
            THEN [ok |-> FALSE, message |-> "Invalid username or password", user |-> 0]
            ELSE [ok |-> TRUE, message |-> "Login successful", user |-> user]

\* dict.update(profile_data) on a profile
Updated(profile, profile_data) ==
    [key \in (DOMAIN profile) \cup (DOMAIN profile_data) |->
        IF key \in DOMAIN profile_data THEN profile_data[key] ELSE profile[key]]

\* a movie handed to the user manager: None, or a dict with some keys
NoMovie == [kind |-> "none", keys |-> {}, id |-> NoId, title |-> ""]
MovieOf(keys, id, title) == [kind |-> "dict", keys |-> keys, id |-> id, title |-> title]

\* not movie  is false
MovieTruthy(movie) == movie.kind = "dict" /\ movie.keys # {}

\* movie.get(key, default)
Get(movie, key, default) == IF key \in movie.keys THEN movie[key] ELSE default

\* Python's == on two ids: an int and a float are equal when their values are
PyEq(a, b) ==
    CASE a.kind = "int" /\ b.kind = "int" -> a.val = b.val
      [] a.kind = "int" /\ b.kind = "float" -> 10 * a.val = b.val
      [] a.kind = "float" /\ b.kind = "int" -> a.val = 10 * b.val
      [] OTHER -> a = b

\* an id after json.dump and json.load: every kind comes back as it was
\* written (null for None)
JsonValue(raw) ==
    CASE raw.kind = "int" -> IntId(raw.val)
      [] raw.kind = "float" -> FloatId(raw.val)
      [] raw.kind = "str" -> StrId(raw.val)
      [] raw.kind = "text" -> TextId
      [] OTHER -> NoId

\* the entry of lines 159-166 and 219-226 as the file gives it back;
\* poster_path, release_year and vote_average are copied like the title,
\* added_at is a time stamp, and they are left out
Entry(movie) ==
    [id |-> JsonValue(Get(movie, "id", NoId)),
     title |-> Get(movie, "title", "Unknown Title")]

\* the movie appended without looking for its id in the list
AddEntryUnchecked(movies, movie) ==
    [ok |-> TRUE, movies |-> Append(movies, Entry(movie))]

\* lines 153-168 and 213-228: refuse an id the list has, else append
AddEntry(movies, movie) ==
    LET movie_id == Get(movie, "id", NoId)
    IN IF \E k \in DOMAIN movies : PyEq(movies[k].id, movie_id)
       THEN [ok |-> FALSE, movies |-> movies]
       ELSE [ok |-> TRUE, movies |-> Append(movies, Entry(movie))]

\* lines 183-187 and 243-247: drop the entries of this id
RemoveEntry(movies, movie_id) ==
    LET kept == FilterIn(movies, {m \in Range(movies) : ~PyEq(m.id, movie_id)})
    IN [ok |-> Len(kept) # Len(movies), movies |-> kept]

\* what a method of the user manager returns
Answer(ok, message) ==
    [status |-> "ok", ok |-> ok, message |-> message, list |-> <<>>, user |-> 0]
Listing(movies) ==
    [status |-> "ok", ok |-> TRUE, message |-> "", list |-> movies, user |-> 0]
Current(user) ==
    [status |-> "ok", ok |-> TRUE, message |-> "", list |-> <<>>, user |-> user]

\* ------------------------------------------------------------------- state
VARIABLES
    df,                 \* data_handler.df
    similarity_matrix,  \* self.similarity_matrix
    movie_indices,      \* self.movie_indices
    feature_matrix,     \* self.feature_matrix
    pc,                 \* the position of the constructor
    failedAt,           \* the construction step that raised, or "none"
    call,               \* the last public call and its arguments
    result,             \* what that call returned, or that it raised
    scored,             \* the score columns the last personalized call computed
    feature_to_idx,     \* the token of every column of the feature matrix
    earlier,            \* a call and its result that the caller has kept
    users,              \* UserManager.users["users"]
    users_file,         \* the users stored in users.json
    user_files,         \* watchlist.json and bookmarks.json of every user id
    current_user        \* UserManager.current_user: a place in users, 0 for None

vars == <<df, similarity_matrix, movie_indices, feature_matrix, pc, failedAt,
          call, result, scored, feature_to_idx, earlier, users, users_file,
          user_files, current_user>>

\* the fields and the files of the user manager
userVars == <<users, users_file, user_files, current_user>>

NoCall ==
    [op |-> "none", movie_id |-> [kind |-> "none", val |-> 0],
     prefs |-> [kind |-> "none", favorite_genres |-> <<>>,
                favorite_directors |-> <<>>, favorite_actors |-> <<>>],
     watchlist |-> [kind |-> "none", items |-> <<>>], mode |-> "nothing",
     limit |-> 0]

\* UserManager.__init__ in a new data directory
InitUserManager ==
    /\ users = <<>>
    /\ users_file = <<>>
    /\ user_files = <<>>
    /\ current_user = 0

\* MovieRecommender.__init__ up to the call of _initialize_recommendation_matrices
InitFields ==
    /\ similarity_matrix = NoMatrix
    /\ movie_indices = EmptyMap
    /\ feature_matrix = NoMatrix
    /\ pc = "new"
    /\ failedAt = "none"
    /\ call = NoCall
    /\ result = NoResult
    /\ scored = <<>>
    /\ feature_to_idx = <<>>
    /\ earlier = [call |-> NoCall, result |-> NoResult]
    /\ InitUserManager

Init ==
    /\ df \in {NoFrame}
              \cup {Frame(AllColumns, rows) : rows \in Catalogs(MoviePool, MaxMovies)}
              \cup {Frame(BareColumns, rows) : rows \in Catalogs(MoviePool, MaxMovies - 1)}
    /\ InitFields

\* Large catalogs for the hybrid strategy: every movie has the same director,
\* at most BigGenred movies have a genre (Drama or Action), the others have
\* an empty genre list; the movie at position i has the id (i % BigMovies) + 1.
BigMovie(i, g) ==
    Movie(IntId((i % BigMovies) + 1), g, ListOf(<<>>), ListOf(<<>>),
          StrOf(Nolan), 50, 100, i)

BigCatalogs ==
    {[i \in 1..BigMovies |-> BigMovie(i, kinds[i])] :
        kinds \in {ks \in [1..BigMovies ->
                             {ListOf(<<>>), ListOf(<<Drama>>), ListOf(<<Action>>)}] :
                      Cardinality({i \in 1..BigMovies : ks[i].items # <<>>})
                          <= BigGenred}}

InitHybrid ==
    /\ df \in {Frame(AllColumns, rows) : rows \in Catalogs(MoviePool, MaxMovies)}
              \cup {Frame(AllColumns, rows) : rows \in BigCatalogs}
    /\ InitFields

\* the catalogs on which the feature space is examined
InitFeatures ==
    /\ df \in {Frame(AllColumns, rows) : rows \in Catalogs(FeaturePool, MaxMovies)}
    /\ InitFields

\* the rows of the catalogs on which calls are repeated
RepeatPool == {m \in FeaturePool : m.id \in {IntId(2), IntId(3), IntId(4)}}

\* the rows of a catalog are in the order of their ids
Ascending(rows) ==
    \A i, j \in DOMAIN rows : i < j => rows[i].id.val < rows[j].id.val

InitRepeat ==
    /\ df \in {Frame(AllColumns, rows) :
                 rows \in {c \in Catalogs(RepeatPool, MaxMovies) : Ascending(c)}}
    /\ InitFields

\* the except clause without the reset of the index map
ExceptInitKeepsMap(step) ==
    /\ similarity_matrix' = NoMatrix
    /\ UNCHANGED movie_indices
    /\ failedAt' = step
    /\ pc' = "ready"

\* the except clause of _initialize_recommendation_matrices
ExceptInit(step) ==
    /\ similarity_matrix' = NoMatrix
    /\ movie_indices' = EmptyMap
    /\ failedAt' = step
    /\ pc' = "ready"

\* lines 23-41: read the table, give up on an empty table or without columns
LoadFrame ==
    /\ pc = "new"
    /\ pc' = IF ~df.present \/ Len(df.rows) = 0
                \/ df.columns \cap FeatureColumns = {}
             THEN "ready" ELSE "features"
    /\ UNCHANGED <<df, similarity_matrix, movie_indices, feature_matrix,
                   failedAt, call, result, scored, feature_to_idx, earlier,
                   users, users_file, user_files, current_user>>

\* lines 44-71: the tokens of every row and the vocabulary
ExtractFeatures ==
    /\ pc = "features"
    /\ IF \E i \in DOMAIN df.rows : FeatureRaises(df, i)
       THEN ExceptInit("features")
       ELSE /\ pc' = "indices"
            /\ UNCHANGED <<similarity_matrix, movie_indices, failedAt>>
    /\ UNCHANGED <<df, feature_matrix, call, result, scored, feature_to_idx,
                   earlier,
                   users, users_file, user_files, current_user>>

\* line 74: the index map
BuildIndexMap ==
    /\ pc = "indices"
    /\ IF IndexRaises(df)
       THEN ExceptInit("indices")
       ELSE /\ movie_indices' = IndexMapOf(df)
            /\ pc' = "matrix"
            /\ UNCHANGED <<similarity_matrix, failedAt>>
    /\ UNCHANGED <<df, feature_matrix, call, result, scored, feature_to_idx,
                   earlier,
                   users, users_file, user_files, current_user>>

\* lines 77-82: the feature matrix
FillFeatureMatrix ==
    /\ pc = "matrix"
    /\ \E columns \in ColumnOrders(Vocabulary(df)) :
          /\ feature_to_idx' = columns
          /\ feature_matrix' = Matrix(FeatureMatrixOf(df, columns))
    /\ pc' = "similarity"
    /\ UNCHANGED <<df, similarity_matrix, movie_indices, failedAt, call,
                   result, scored, earlier,
                   users, users_file, user_files, current_user>>

\* line 85: the similarity matrix
ComputeSimilarity ==
    /\ pc = "similarity"
    /\ IF SimilarityRaises(feature_matrix.cells)
       THEN ExceptInit("similarity")
       ELSE /\ similarity_matrix' = Matrix(SimilarityOf(feature_matrix.cells))
            /\ pc' = "ready"
            /\ UNCHANGED <<movie_indices, failedAt>>
    /\ UNCHANGED <<df, feature_matrix, call, result, scored, feature_to_idx,
                   earlier,
                   users, users_file, user_files, current_user>>

Construct ==
    \/ LoadFrame
    \/ ExtractFeatures
    \/ BuildIndexMap
    \/ FillFeatureMatrix
    \/ ComputeSimilarity

\* ------------------------------------------------------- the public calls
Limits == (0 - 1)..MaxLimit

MovieIdArgs ==
    {IntId(1), IntId(3), IntId(9), StrId(1), FloatId(15), TextId, NoId}

WatchlistArgs ==
    {NoWatchlist, Watchlist(<<>>), Watchlist(<<IntId(1)>>),
     Watchlist(<<IntId(2), IntId(1)>>), Watchlist(<<IntId(3), IntId(9)>>),
     Watchlist(<<IntId(1), IntId(2), TextId>>), Watchlist(<<NoId>>)}

PrefsArgs ==
    {NoPrefs, EmptyPrefs, Prefs(<<>>, <<>>, <<>>),
     Prefs(<<Drama>>, <<>>, <<>>), Prefs(<<DramaLower>>, <<>>, <<>>),
     Prefs(<<Western>>, <<>>, <<>>), Prefs(<<>>, <<NolanPart>>, <<>>),
     Prefs(<<Action, Drama>>, <<>>, <<Lower(BoDo)>>),
     Prefs(<<Drama>>, <<NolanPart, Lower(Nolan)>>, <<Lower(BoDo), <<"l">>>>)}

CallOf(op, raw, prefs, watchlist, mode, limit) ==
    [op |-> op, movie_id |-> raw, prefs |-> prefs, watchlist |-> watchlist,
     mode |-> mode, limit |-> limit]

\* a return that drops the similarity matrix
FinishForgetful(c, r, s) ==
    /\ call' = c
    /\ result' = r
    /\ scored' = s
    /\ pc' = "returned"
    /\ similarity_matrix' = NoMatrix
    /\ UNCHANGED <<df, movie_indices, feature_matrix, failedAt, feature_to_idx,
                   earlier,
                   users, users_file, user_files, current_user>>

\* a public method returns: none of them assigns a field of the recommender
Finish(c, r, s) ==
    /\ call' = c
    /\ result' = r
    /\ scored' = s
    /\ pc' = "returned"
    /\ UNCHANGED <<df, similarity_matrix, movie_indices, feature_matrix,
                   failedAt, feature_to_idx, earlier,
                   users, users_file, user_files, current_user>>

\* the caller takes the result; the recommender is ready for the next call
Resume ==
    /\ pc = "returned"
    /\ pc' = "ready"
    /\ call' = NoCall
    /\ result' = NoResult
    /\ scored' = <<>>
    /\ UNCHANGED <<df, similarity_matrix, movie_indices, feature_matrix,
                   failedAt, feature_to_idx, earlier,
                   users, users_file, user_files, current_user>>

\* the caller keeps the list of its first call of the largest limit; the
\* recommender is ready for the next call
Remember ==
    /\ pc = "returned"
    /\ earlier.call = NoCall
    /\ call.limit = MaxLimit
    /\ earlier' = [call |-> call, result |-> result]
    /\ pc' = "ready"
    /\ call' = NoCall
    /\ result' = NoResult
    /\ scored' = <<>>
    /\ UNCHANGED <<df, similarity_matrix, movie_indices, feature_matrix,
                   failedAt, feature_to_idx,
                   users, users_file, user_files, current_user>>

\* lines 94-96
PopularCall ==
    /\ pc = "ready"
    /\ \E limit \in Limits :
          Finish(CallOf("popular", NoId, NoPrefs, NoWatchlist, "nothing", limit),
                 Returned(get_popular_movies(df, limit)), <<>>)

\* lines 98-100
TrendingCall ==
    /\ pc = "ready"
    /\ \E limit \in Limits :
          Finish(CallOf("trending", NoId, NoPrefs, NoWatchlist, "nothing", limit),
                 Returned(get_trending_movies(df, limit)), <<>>)

SimilarImprovedCall ==
    /\ pc = "ready"
    /\ \E raw \in MovieIdArgs, limit \in Limits :
          Finish(CallOf("similar_improved", raw, NoPrefs, NoWatchlist, "nothing", limit),
                 get_similar_movies_improved(df, similarity_matrix, movie_indices,
                                             raw, limit), <<>>)

SimilarCall ==
    /\ pc = "ready"
    /\ \E raw \in MovieIdArgs, limit \in Limits, mode \in AccessorModes :
          Finish(CallOf("similar", raw, NoPrefs, NoWatchlist, mode, limit),
                 get_similar_movies(df, similarity_matrix, movie_indices,
                                    mode, raw, limit), <<>>)

\* the personalized strategy sorting the shared table itself by score
PersonalizedCallInPlace ==
    /\ pc = "ready"
    /\ \E prefs \in PrefsArgs, limit \in Limits :
          LET r == get_personalized_recommendations(df, prefs, limit)
              scores == IF prefs.kind = "dict" /\ r.status = "ok" /\ Len(df.rows) > 0
                        THEN PersonalScores(df, prefs).rows ELSE <<>>
              n == Len(scores)
              order == StableDesc(n, Above(n, [i \in 1..n |-> scores[i].score]))
          IN /\ call' = CallOf("personalized", NoId, prefs, NoWatchlist,
                               "nothing", limit)
             /\ result' = r
             /\ scored' = scores
             /\ pc' = "returned"
             /\ df' = IF scores = <<>> THEN df
                      ELSE [df EXCEPT !.rows = [k \in 1..n |-> df.rows[order[k]]]]
             /\ UNCHANGED <<similarity_matrix, movie_indices, feature_matrix,
                            failedAt, feature_to_idx, earlier,
                   users, users_file, user_files, current_user>>

\* lines 157-242
PersonalizedCall ==
    /\ pc = "ready"
    /\ \E prefs \in PrefsArgs, limit \in Limits :
          LET r == get_personalized_recommendations(df, prefs, limit)
          IN Finish(CallOf("personalized", NoId, prefs, NoWatchlist, "nothing", limit),
                    r,
                    IF prefs.kind = "dict" /\ r.status = "ok" /\ Len(df.rows) > 0
                    THEN PersonalScores(df, prefs).rows ELSE <<>>)

HybridCall ==
    /\ pc = "ready"
    /\ \E watchlist \in WatchlistArgs, limit \in Limits :
          Finish(CallOf("hybrid", NoId, NoPrefs, watchlist, "nothing", limit),
                 get_hybrid_recommendations(df, similarity_matrix, movie_indices,
                                            feature_matrix, watchlist, limit), <<>>)

WatchlistCall ==
    /\ pc = "ready"
    /\ \E watchlist \in WatchlistArgs, limit \in Limits, mode \in AccessorModes :
          Finish(CallOf("for_watchlist", NoId, NoPrefs, watchlist, mode, limit),
                 get_recommendations_for_watchlist(df, similarity_matrix,
                     movie_indices, feature_matrix, mode, watchlist, limit), <<>>)

Calls ==
    \/ PopularCall
    \/ TrendingCall
    \/ SimilarImprovedCall
    \/ SimilarCall
    \/ PersonalizedCall
    \/ HybridCall
    \/ WatchlistCall

Next == Construct \/ Calls \/ Resume

Spec == Init /\ [][Next]_vars

\* the construction and the hybrid strategy alone, on small and large catalogs
NextHybrid == Construct \/ HybridCall \/ Resume

SpecHybrid == InitHybrid /\ [][NextHybrid]_vars

\* every call, with a caller that keeps the list of its first call
NextRepeat == Construct \/ Calls \/ Resume \/ Remember

SpecRepeat == InitRepeat /\ [][NextRepeat]_vars

\* the construction and the matrix-based similar movies
NextFeatures == Construct \/ SimilarImprovedCall \/ Resume

SpecFeatures == InitFeatures /\ [][NextFeatures]_vars

\* ------------------------------------------------- the user manager's calls
\* the fields of the recommender, which the user manager never touches
recommenderVars ==
    <<df, similarity_matrix, movie_indices, feature_matrix, pc, failedAt,
      scored, feature_to_idx, earlier>>

NoProfileData == [bio |-> ""]

UserCall(op, username, password, movie, movie_id, profile_data) ==
    [op |-> op, username |-> username, password |-> password, movie |-> movie,
     movie_id |-> movie_id, profile_data |-> profile_data]

\* a method without arguments
Plain(op) == UserCall(op, <<>>, <<>>, NoMovie, NoId, NoProfileData)

RegisterArgs ==
    {<<Ann, Secret>>, <<Lower(Ann), Secret>>, <<Bob, Hunter>>,
     <<<<"A", "n">>, Secret>>, <<Ann, <<"s", "e", "c">>>>, <<<<>>, Secret>>}

LoginArgs ==
    {<<Lower(Ann), Secret>>, <<Ann, Hunter>>, <<Bob, Hunter>>, <<Dan, Secret>>,
     <<<<>>, Secret>>, <<Ann, <<>>>>}

MovieArgs ==
    {NoMovie, MovieOf({}, NoId, ""), MovieOf({"id", "title"}, IntId(1), "Heat"),
     MovieOf({"id"}, IntId(2), "")}

\* the movies offered as bookmarks
BookmarkArgs == {NoMovie, MovieOf({"id", "title"}, IntId(1), "Heat")}

RemoveArgs == {IntId(1), FloatId(20), StrId(1)}

ProfileArgs == {[bio |-> "hi"]}

\* the id of the current user's directory
CurrentId == users[current_user].id

\* register(username, password), lines 33-81; the uuid4 of line 47 is an id
\* that no stored user has
RegisterCall ==
    /\ \E args \in RegisterArgs :
          LET username == args[1]
              password == args[2]
              refusal == RegisterRefusal(users, username, password)
              user_id == Len(users) + 1
          IN /\ call' = UserCall("register", username, password, NoMovie, NoId,
                                 NoProfileData)
             /\ IF refusal # ""
                THEN /\ result' = Answer(FALSE, refusal)
                     /\ UNCHANGED <<users, users_file, user_files>>
                ELSE /\ users' = Append(users, NewUser(user_id, username, password, ""))
                     /\ users_file' = users'
                     /\ user_files' = user_files @@
                            (user_id :> [watchlist |-> <<>>, bookmarks |-> <<>>])
                     /\ result' = Answer(TRUE, "Registration successful")
    /\ UNCHANGED <<current_user, recommenderVars>>

\* login(username, password), lines 83-109
LoginCall ==
    /\ \E args \in LoginArgs :
          LET outcome == LoginOutcome(users, args[1], args[2])
          IN /\ call' = UserCall("login", args[1], args[2], NoMovie, NoId,
                                 NoProfileData)
             /\ result' = Answer(outcome.ok, outcome.message)
             /\ IF outcome.ok
                THEN /\ users' = [users EXCEPT ![outcome.user].last_login = "now"]
                     /\ users_file' = users'
                     /\ current_user' = outcome.user
                ELSE UNCHANGED <<users, users_file, current_user>>
    /\ UNCHANGED <<user_files, recommenderVars>>

\* a logout that leaves the user logged in
LogoutCallKeepsUser ==
    /\ call' = Plain("logout")
    /\ result' = Answer(TRUE, "Logout successful")
    /\ UNCHANGED <<users, users_file, user_files, current_user, recommenderVars>>

\* logout(), lines 111-114
LogoutCall ==
    /\ call' = Plain("logout")
    /\ result' = Answer(TRUE, "Logout successful")
    /\ current_user' = 0
    /\ UNCHANGED <<users, users_file, user_files, recommenderVars>>

\* get_current_user(), lines 116-118
GetCurrentUserCall ==
    /\ call' = Plain("get_current_user")
    /\ result' = Current(current_user)
    /\ UNCHANGED <<userVars, recommenderVars>>

\* update_profile(profile_data), lines 120-131
UpdateProfileCall ==
    /\ \E profile_data \in ProfileArgs :
          /\ call' = UserCall("update_profile", <<>>, <<>>, NoMovie, NoId, profile_data)
          /\ IF current_user = 0
             THEN /\ result' = Answer(FALSE, "No user logged in")
                  /\ UNCHANGED <<users, users_file>>
             ELSE /\ users' = [users EXCEPT ![current_user].profile =
                                   Updated(@, profile_data)]
                  /\ users_file' = users'
                  /\ result' = Answer(TRUE, "Profile updated successfully")
    /\ UNCHANGED <<user_files, current_user, recommenderVars>>

\* get_watchlist(), lines 133-142
GetWatchlistCall ==
    /\ call' = Plain("get_watchlist")
    /\ result' = Listing(IF current_user = 0 THEN <<>>
                         ELSE user_files[CurrentId].watchlist)
    /\ UNCHANGED <<userVars, recommenderVars>>

\* add_to_watchlist(movie), lines 144-171
AddToWatchlistCall ==
    /\ \E movie \in MovieArgs :
          /\ call' = UserCall("add_to_watchlist", <<>>, <<>>, movie, NoId, NoProfileData)
          /\ IF current_user = 0 \/ ~MovieTruthy(movie)
             THEN /\ result' = Answer(FALSE, "No user logged in or invalid movie")
                  /\ UNCHANGED user_files
             ELSE LET added == AddEntry(user_files[CurrentId].watchlist, movie)
                  IN IF added.ok
                     THEN /\ user_files' = [user_files EXCEPT
                                               ![CurrentId].watchlist = added.movies]
                          /\ result' = Answer(TRUE, "Movie added to watchlist")
                     ELSE /\ result' = Answer(FALSE, "Movie already in watchlist")
                          /\ UNCHANGED user_files
    /\ UNCHANGED <<users, users_file, current_user, recommenderVars>>

\* remove_from_watchlist(movie_id), lines 173-191
RemoveFromWatchlistCall ==
    /\ \E movie_id \in RemoveArgs :
          /\ call' = UserCall("remove_from_watchlist", <<>>, <<>>, NoMovie, movie_id,
                              NoProfileData)
          /\ IF current_user = 0
             THEN /\ result' = Answer(FALSE, "No user logged in")
                  /\ UNCHANGED user_files
             ELSE LET removed == RemoveEntry(user_files[CurrentId].watchlist, movie_id)
                  IN IF removed.ok
                     THEN /\ user_files' = [user_files EXCEPT
                                               ![CurrentId].watchlist = removed.movies]
                          /\ result' = Answer(TRUE, "Movie removed from watchlist")
                     ELSE /\ result' = Answer(FALSE, "Movie not found in watchlist")
                          /\ UNCHANGED user_files
    /\ UNCHANGED <<users, users_file, current_user, recommenderVars>>

\* get_bookmarks(), lines 193-202
GetBookmarksCall ==
    /\ call' = Plain("get_bookmarks")
    /\ result' = Listing(IF current_user = 0 THEN <<>>
                         ELSE user_files[CurrentId].bookmarks)
    /\ UNCHANGED <<userVars, recommenderVars>>

\* add_bookmark(movie), lines 204-231
AddBookmarkCall ==
    /\ \E movie \in BookmarkArgs :
          /\ call' = UserCall("add_bookmark", <<>>, <<>>, movie, NoId, NoProfileData)
          /\ IF current_user = 0 \/ ~MovieTruthy(movie)
             THEN /\ result' = Answer(FALSE, "No user logged in or invalid movie")
                  /\ UNCHANGED user_files
             ELSE LET added == AddEntry(user_files[CurrentId].bookmarks, movie)
                  IN IF added.ok
                     THEN /\ user_files' = [user_files EXCEPT
                                               ![CurrentId].bookmarks = added.movies]
                          /\ result' = Answer(TRUE, "Movie bookmarked successfully")
                     ELSE /\ result' = Answer(FALSE, "Movie already bookmarked")
                          /\ UNCHANGED user_files
    /\ UNCHANGED <<users, users_file, current_user, recommenderVars>>

\* remove_bookmark(movie_id), lines 233-251
RemoveBookmarkCall ==
    /\ \E movie_id \in RemoveArgs :
          /\ call' = UserCall("remove_bookmark", <<>>, <<>>, NoMovie, movie_id,
                              NoProfileData)
          /\ IF current_user = 0
             THEN /\ result' = Answer(FALSE, "No user logged in")
                  /\ UNCHANGED user_files
             ELSE LET removed == RemoveEntry(user_files[CurrentId].bookmarks, movie_id)
                  IN IF removed.ok
                     THEN /\ user_files' = [user_files EXCEPT
                                               ![CurrentId].bookmarks = removed.movies]
                          /\ result' = Answer(TRUE, "Bookmark removed successfully")
                     ELSE /\ result' = Answer(FALSE, "Movie not found in bookmarks")
                          /\ UNCHANGED user_files
    /\ UNCHANGED <<users, users_file, current_user, recommenderVars>>

\* the application is started again: a new UserManager loads users.json and
\* has no current user
Restart ==
    /\ call' = Plain("init")
    /\ result' = Answer(TRUE, "")
    /\ users' = users_file
    /\ current_user' = 0
    /\ UNCHANGED <<users_file, user_files, recommenderVars>>

\* the user manager of a new data directory, with a recommender that has no
\* table
InitUsers ==
    /\ df = NoFrame
    /\ InitFields

NextUsers ==
    \/ RegisterCall
    \/ LoginCall
    \/ LogoutCall
    \/ GetCurrentUserCall
    \/ UpdateProfileCall
    \/ GetWatchlistCall
    \/ AddToWatchlistCall
    \/ RemoveFromWatchlistCall
    \/ GetBookmarksCall
    \/ AddBookmarkCall
    \/ RemoveBookmarkCall
    \/ Restart

SpecUsers == InitUsers /\ [][NextUsers]_vars

\* ------------------------------------------------------------------ claims
Min(a, b) == IF a <= b THEN a ELSE b

\* C1: no public recommender method ends in an error state: whatever the
\* catalog and the arguments, every call returns a list.
PublicMethodsNeverRaise == result.status # "raised"

\* C2: when a step of the construction raises, the constructor still
\* completes, and it ends with similarity_matrix None and movie_indices
\* empty, whichever step raised.
FailedConstructionDisablesSimilarity ==
    failedAt # "none" =>
        /\ pc \in {"ready", "returned"}
        /\ similarity_matrix = NoMatrix
        /\ movie_indices = EmptyMap

\* the similarity step raised, after the index map had been filled
FailedAfterIndexMap == failedAt = "similarity" /\ pc = "ready"

\* C3: the matrix-based similar movies of a known id never contain a
\* record with the queried id.
SimilarExcludesSelf ==
    (/\ call.op = "similar_improved"
     /\ IntOf(call.movie_id).ok
     /\ IntOf(call.movie_id).val \in DOMAIN movie_indices)
    => \A k \in DOMAIN result.list :
          IntOf(df.rows[result.list[k].idx].id).val # IntOf(call.movie_id).val

SimilarFoundOthers ==
    /\ call.op = "similar_improved"
    /\ IntOf(call.movie_id).val \in DOMAIN movie_indices
    /\ Len(result.list) >= 2

\* C4: for a limit >= 0, the matrix-based similar movies, the personalized,
\* the watchlist and the hybrid recommendations hold at most limit records.
CapRespected ==
    (/\ call.op \in {"similar_improved", "personalized", "for_watchlist", "hybrid"}
     /\ call.limit >= 0
     /\ result.status = "ok")
    => Len(result.list) <= call.limit

\* a personalized result of limit >= 2 records, one of them padded in
CapReachedByPadding ==
    /\ call.op = "personalized"
    /\ scored # <<>>
    /\ call.limit >= 2
    /\ Len(result.list) = call.limit
    /\ \E k \in DOMAIN result.list : scored[result.list[k].idx].score = 0

\* C5: non-empty preferences that match no movie of a non-empty catalog (not
\* even up to letter case) still give at least min(limit, catalog size)
\* records.
PersonalizedFallbackComplete ==
    (/\ call.op = "personalized"
     /\ result.status = "ok"
     /\ scored # <<>>
     /\ \/ call.prefs.favorite_genres # <<>>
        \/ call.prefs.favorite_directors # <<>>
        \/ call.prefs.favorite_actors # <<>>
     /\ \A i \in DOMAIN scored :
           /\ scored[i].genre_score = 0
           /\ scored[i].director_score = 0
           /\ scored[i].actor_score = 0
           /\ \A k \in DOMAIN call.prefs.favorite_genres :
                 \A g \in Range(df.rows[i].genres_list.items) :
                     Lower(g) # Lower(call.prefs.favorite_genres[k]))
    => Len(result.list) >= Min(call.limit, Len(df.rows))

\* Python's  raw in movie_indices  for the id as the caller passed it
IsKey(mi, raw) ==
    \/ raw.kind = "int" /\ raw.val \in DOMAIN mi
    \/ raw.kind = "float" /\ raw.val % 10 = 0 /\ (raw.val \div 10) \in DOMAIN mi

\* C6 as stated: an id that is not a key of the index map gives the empty
\* list.
NonKeyGivesEmpty ==
    (call.op = "similar_improved" /\ ~IsKey(movie_indices, call.movie_id))
    => result = Returned(<<>>)

\* C6: an id that cannot be converted to an integer, or whose conversion
\* int(id) is not a key of the index map, gives the empty list and no error.
UnknownIdGivesEmpty ==
    (/\ call.op = "similar_improved"
     /\ \/ ~IntOf(call.movie_id).ok
        \/ IntOf(call.movie_id).val \notin DOMAIN movie_indices)
    => result = Returned(<<>>)

\* an id that cannot be converted, asked of a recommender with similarity
UnconvertibleIdAsked ==
    /\ call.op = "similar_improved"
    /\ ~similarity_matrix.isNone
    /\ ~IntOf(call.movie_id).ok
    /\ result = Returned(<<>>)

\* the genres of the movies at the positions in S
GenresAt(frame, S) ==
    UNION {IF IsList(Cell(frame, i, "genres_list"))
           THEN Range(Cell(frame, i, "genres_list").items) ELSE {} : i \in S}

\* the movie at position i has a genre that no movie at a position in S has
Novel(frame, i, S) == GenresAt(frame, {i}) \ GenresAt(frame, S) # {}

\* the positions returned before the k-th record of the result
Before(k) == {result.list[j].idx : j \in 1..(k - 1)}

\* the catalog movies whose id is in the watchlist of the call
Watched ==
    {i \in DOMAIN df.rows :
        \E r \in Range(call.watchlist.items) :
            Truthy(r) /\ IntOf(r).ok /\ IntOf(r).val = IntOf(df.rows[i].id).val}

\* C7 as stated: a hybrid result holds a movie without a new genre only when
\* no catalog movie outside the watchlist and not yet selected has a new
\* genre.
FillOnlyWhenCatalogExhausted ==
    call.op = "hybrid" =>
        \A k \in DOMAIN result.list :
            ~Novel(df, result.list[k].idx, Before(k)) =>
                \A c \in ((DOMAIN df.rows) \ Watched) \ Before(k) :
                    ~Novel(df, c, Before(k))

\* the candidates of the call: the limit + 10 movies outside the watchlist
\* that are most similar to the watchlist profile
Candidates ==
    Range(HybridCandidates(feature_matrix.cells,
              WatchlistIndices(movie_indices, call.watchlist).indices,
              call.limit))

\* C7: a hybrid result holds a movie without a new genre only when none of
\* the limit + 10 most similar movies outside the watchlist that is not yet
\* selected has a new genre.
FillOnlyWhenCandidatesExhausted ==
    (call.op = "hybrid" /\ result.list # <<>>) =>
        \A k \in DOMAIN result.list :
            ~Novel(df, result.list[k].idx, Before(k)) =>
                \A c \in Candidates \ Before(k) : ~Novel(df, c, Before(k))

\* a hybrid result with a fill-in after a movie chosen for its genre
HybridFilledIn ==
    /\ call.op = "hybrid"
    /\ \E k \in DOMAIN result.list :
          /\ k >= 2
          /\ Novel(df, result.list[1].idx, {})
          /\ ~Novel(df, result.list[k].idx, Before(k))

\* C8: with empty preferences (no mapping, an empty mapping, or three empty
\* lists) the personalized recommendations over a loaded table are the
\* popular ones: the same movies in the same order.
EmptyPrefsGivePopular ==
    (/\ call.op = "personalized"
     /\ df.present
     /\ call.prefs.favorite_genres = <<>>
     /\ call.prefs.favorite_directors = <<>>
     /\ call.prefs.favorite_actors = <<>>)
    => /\ result.status = "ok"
       /\ Positions(result.list) = Positions(get_popular_movies(df, call.limit))

\* C9: the watchlist recommendations of an empty watchlist are exactly the
\* popular recommendations of the same limit.
EmptyWatchlistGivesPopular ==
    (call.op = "for_watchlist" /\ call.watchlist.items = <<>>)
    => result = Returned(get_popular_movies(df, call.limit))

EmptyWatchlistAsked ==
    /\ call.op = "for_watchlist"
    /\ call.watchlist.items = <<>>
    /\ ~similarity_matrix.isNone
    /\ Len(result.list) >= 2

\* C10: a favorite genre counts for a movie when it equals one of the
\* movie's genres up to letter case.
GenreMatchIgnoresCase ==
    (call.op = "personalized" /\ scored # <<>> /\ "genres_list" \in df.columns)
    => \A i \in DOMAIN scored :
          scored[i].genre_score =
              Cardinality({k \in DOMAIN call.prefs.favorite_genres :
                  \E g \in Range(df.rows[i].genres_list.items) :
                      Lower(g) = Lower(call.prefs.favorite_genres[k])})

\* C11: when fewer than limit movies have a positive score and the catalog
\* holds at least limit movies, the personalized result for non-empty
\* preferences has exactly limit records, with pairwise distinct ids.
PaddingReachesLimit ==
    (/\ call.op = "personalized"
     /\ result.status = "ok"
     /\ scored # <<>>
     /\ \/ call.prefs.favorite_genres # <<>>
        \/ call.prefs.favorite_directors # <<>>
        \/ call.prefs.favorite_actors # <<>>
     /\ Cardinality({i \in DOMAIN scored : scored[i].score > 0}) < call.limit
     /\ Len(df.rows) >= call.limit)
    => /\ Len(result.list) = call.limit
       /\ \A j, k \in DOMAIN result.list :
             j # k => df.rows[result.list[j].idx].id # df.rows[result.list[k].idx].id

\* C12: in a personalized result with non-empty preferences the scores never
\* increase along the list (so every padded movie, of score 0, comes after
\* the scored ones), no movie left out has a higher score than a returned
\* movie of positive score, and a movie that matches a favorite genre comes
\* before every movie of score 0.
ScoreOrderKept ==
    (call.op = "personalized" /\ result.status = "ok" /\ scored # <<>>) =>
        /\ \A j, k \in DOMAIN result.list :
              j < k => scored[result.list[j].idx].score
                          >= scored[result.list[k].idx].score
        /\ \A k \in DOMAIN result.list :
              scored[result.list[k].idx].score > 0 =>
                  \A u \in (DOMAIN scored) \ Range(Positions(result.list)) :
                      scored[u].score <= scored[result.list[k].idx].score
        /\ \A j, k \in DOMAIN result.list :
              (/\ scored[result.list[j].idx].genre_score > 0
               /\ scored[result.list[k].idx].score = 0) => j < k

\* a movie of a favorite genre returned together with a padded movie
PaddedAfterGenreMatch ==
    /\ call.op = "personalized"
    /\ scored # <<>>
    /\ \E j, k \in DOMAIN result.list :
          /\ scored[result.list[j].idx].genre_score > 0
          /\ scored[result.list[k].idx].score = 0

\* the position the index map gives to the movie id of the call
QueryIdx == movie_indices[IntOf(call.movie_id).val]

\* the column k holds a genre token that the movie at position q has
GenreOf(q, k) ==
    /\ Len(feature_to_idx[k]) >= Len(GenrePrefix)
    /\ SubSeq(feature_to_idx[k], 1, Len(GenrePrefix)) = GenrePrefix
    /\ feature_matrix.cells[q][k] > 0

\* the movie at position a shares a genre with the movie at position q, the
\* movie at position b shares none, and the two have the same count for every
\* other feature
DifferBySharedGenre(q, a, b) ==
    LET cols == DOMAIN feature_to_idx
        fm == feature_matrix.cells
    IN /\ \E k \in cols : GenreOf(q, k) /\ fm[a][k] > 0
       /\ \A k \in cols : GenreOf(q, k) => fm[b][k] = 0
       /\ \A k \in cols : ~GenreOf(q, k) => fm[a][k] = fm[b][k]

Constructed == pc \in {"ready", "returned"}

\* C16: once the constructor has returned, no step changes the similarity
\* matrix, the feature matrix or the index map: a disabled recommender stays
\* disabled and an enabled one stays enabled.
MatricesFrozenAfterConstruction ==
    [][Constructed =>
          UNCHANGED <<similarity_matrix, feature_matrix, movie_indices>>]_vars

\* a call has returned on a recommender with similarity enabled
CallReturnedWhileEnabled ==
    /\ pc = "returned"
    /\ ~similarity_matrix.isNone
    /\ call.op = "personalized"
    /\ result.list # <<>>

\* the table is missing or empty, or has none of the four feature columns
NothingToBuildFrom ==
    \/ ~df.present
    \/ Len(df.rows) = 0
    \/ df.columns \cap FeatureColumns = {}

\* C17: with a missing or empty table, or a table without any of the columns
\* genres_list, keywords_list, cast_list and director, the constructor
\* leaves similarity disabled, and the matrix-based similar movies and the
\* hybrid recommendations are empty for every argument.
NoFeaturesDisableSimilarity ==
    (NothingToBuildFrom /\ Constructed) =>
        /\ similarity_matrix = NoMatrix
        /\ movie_indices = EmptyMap
        /\ call.op \in {"similar_improved", "hybrid"} => result = Returned(<<>>)

\* the hybrid strategy asked for the watchlist [1] on a table that holds the
\* movie 1 but no feature column
HybridAskedWithoutFeatures ==
    /\ call.op = "hybrid"
    /\ call.watchlist.items = <<IntId(1)>>
    /\ call.limit >= 1
    /\ df.columns = BareColumns
    /\ \E i \in DOMAIN df.rows : df.rows[i].id = IntId(1)
    /\ result = Returned(<<>>)

\* the constructor has returned without raising and with a similarity matrix
Built == Constructed /\ failedAt = "none" /\ ~similarity_matrix.isNone

\* C18: after a successful construction the feature matrix has one row for
\* every catalog row, each with one column for every token of the
\* vocabulary, and the index map sends every catalog id to a position of the
\* table whose row has that id; when the ids are pairwise distinct the map
\* is a bijection between the ids and the positions.
IndexMapConsistent ==
    Built =>
        LET n == Len(df.rows)
            key(i) == IntOf(df.rows[i].id).val
        IN /\ Len(feature_matrix.cells) = n
           /\ \A i \in 1..n :
                 Len(feature_matrix.cells[i]) = Cardinality(Vocabulary(df))
           /\ DOMAIN movie_indices = {key(i) : i \in 1..n}
           /\ \A i \in 1..n :
                 /\ movie_indices[key(i)] \in 1..n
                 /\ key(movie_indices[key(i)]) = key(i)
           /\ (\A i, j \in 1..n : i # j => key(i) # key(j)) =>
                 \A i \in 1..n : movie_indices[key(i)] = i

\* a catalog of three movies with distinct ids, built
ThreeMoviesIndexed ==
    /\ Built
    /\ Len(df.rows) = 3
    /\ Cardinality(DOMAIN movie_indices) = 3

Folded(c) == IF c = " " THEN "_" ELSE LowerChar(c)

\* tok is the token of the name under the prefix: the two are equal up to
\* letter case and up to space against underscore
NamesToken(prefix, name, tok) ==
    /\ Len(tok) = Len(prefix) + Len(name)
    /\ SubSeq(tok, 1, Len(prefix)) = prefix
    /\ \A c \in DOMAIN name : Folded(name[c]) = tok[Len(prefix) + c]

\* the number of entries of the list names, among the first most, that tok
\* is the token of
Occurrences(prefix, names, most, tok) ==
    Cardinality({p \in DOMAIN names :
                    p <= most /\ NamesToken(prefix, names[p], tok)})

\* C20: the count of a token in the row of a movie is 3 for every occurrence
\* of the genre, 1 for every occurrence of the keyword, 2 for every occurrence
\* of the actor among the first three cast members and 3 for the director
\* when the director is not empty, names that are equal up to letter case and
\* space against underscore being counted together.
TokenCountsWeighted ==
    (~feature_matrix.isNone) =>
        \A i \in DOMAIN df.rows : \A k \in DOMAIN feature_to_idx :
            LET tok == feature_to_idx[k]
                row == df.rows[i]
            IN feature_matrix.cells[i][k] =
                 3 * Occurrences(GenrePrefix, row.genres_list.items,
                                 Len(row.genres_list.items), tok)
                 + 1 * Occurrences(KwPrefix, row.keywords_list.items,
                                   Len(row.keywords_list.items), tok)
                 + 2 * Occurrences(ActorPrefix, row.cast_list.items, 3, tok)
                 + (IF row.director.items # <<>>
                       /\ NamesToken(DirectorPrefix, row.director.items, tok)
                    THEN 3 ELSE 0)

\* a row with four cast members, two of them one actor up to case and
\* underscore, whose token has the count 4
FourthCastMemberLeftOut ==
    /\ ~feature_matrix.isNone
    /\ \E i \in DOMAIN df.rows : \E k \in DOMAIN feature_to_idx :
          /\ Len(df.rows[i].cast_list.items) = 4
          /\ feature_to_idx[k] = ActorPrefix \o AlPaUnder
          /\ feature_matrix.cells[i][k] = 4

\* the matrices the constructor builds when the columns of the feature
\* matrix are in the order Enumerate gives
ReferenceFeatures == Matrix(FeatureMatrixOf(df, Enumerate(Vocabulary(df))))
ReferenceSimilarity == Matrix(SimilarityOf(ReferenceFeatures.cells))

\* what the call of the current state returns with the reference matrices
ReferenceResult ==
    CASE call.op = "similar_improved" ->
            get_similar_movies_improved(df, ReferenceSimilarity, movie_indices,
                                        call.movie_id, call.limit)
      [] call.op = "similar" ->
            get_similar_movies(df, ReferenceSimilarity, movie_indices, call.mode,
                               call.movie_id, call.limit)
      [] call.op = "hybrid" ->
            get_hybrid_recommendations(df, ReferenceSimilarity, movie_indices,
                                       ReferenceFeatures, call.watchlist, call.limit)
      [] call.op = "for_watchlist" ->
            get_recommendations_for_watchlist(df, ReferenceSimilarity,
                movie_indices, ReferenceFeatures, call.mode, call.watchlist,
                call.limit)
      [] OTHER -> result

HighestAverage == SetMax({df.rows[i].vote_average : i \in DOMAIN df.rows})
LowestAverage == SetMin({df.rows[i].vote_average : i \in DOMAIN df.rows})

\* C21: the score of a movie is 2 for every favorite genre in its genre
\* list, plus 3 when some favorite director is part of its director's name
\* in lower case, plus 1.5 for every favorite actor that is part of the name
\* of one of its cast members in lower case, plus (vote_average - lowest) /
\* (highest - lowest) when the movie has at least 50 votes.  Both sides are
\* multiplied by 2 * (highest - lowest), or by 2 when all averages are equal.
ScoreIsWeightedSum ==
    (call.op = "personalized" /\ scored # <<>> /\ df.columns = AllColumns) =>
        \A i \in DOMAIN scored :
            LET row == df.rows[i]
                spread == HighestAverage - LowestAverage
                unit == IF spread > 0 THEN spread ELSE 1
                genres == Cardinality({k \in DOMAIN call.prefs.favorite_genres :
                              \E p \in DOMAIN row.genres_list.items :
                                  row.genres_list.items[p]
                                      = call.prefs.favorite_genres[k]})
                director == IF \E k \in DOMAIN call.prefs.favorite_directors :
                                 Contains(Lower(row.director.items),
                                          Lower(call.prefs.favorite_directors[k]))
                            THEN 1 ELSE 0
                actors == Cardinality({k \in DOMAIN call.prefs.favorite_actors :
                              \E p \in DOMAIN row.cast_list.items :
                                  Contains(Lower(row.cast_list.items[p]),
                                           Lower(call.prefs.favorite_actors[k]))})
                rating == IF spread > 0 /\ row.vote_count >= 50
                          THEN row.vote_average - LowestAverage ELSE 0
            IN scored[i].score =
                   2 * unit * (2 * genres + 3 * director)
                   + 3 * unit * actors + 2 * rating

\* a movie scored for a genre, for two favorite directors that both match,
\* and for an actor, next to a movie scored for its rating
AllTermsScored ==
    /\ call.op = "personalized"
    /\ Len(call.prefs.favorite_directors) = 2
    /\ \E i, j \in DOMAIN scored :
          /\ scored[i].genre_score = 1
          /\ scored[i].director_score = 3
          /\ scored[i].actor_score >= 1
          /\ df.rows[j].vote_average > LowestAverage
          /\ df.rows[j].vote_count >= 50

\* the similar movies of every watchlist item of the call, as positions
SimilarOfItem(k) ==
    Positions(get_similar_movies(df, similarity_matrix, movie_indices, call.mode,
                                 call.watchlist.items[k], SimilarPerItem).list)

AllSimilar == Flatten([k \in DOMAIN call.watchlist.items |-> SimilarOfItem(k)])

\* the call is a watchlist call that took the frequency fallback: the hybrid
\* strategy gave nothing and a similar movie was collected
FrequencyFallback ==
    /\ call.op = "for_watchlist"
    /\ call.watchlist.items # <<>>
    /\ get_hybrid_recommendations(df, similarity_matrix, movie_indices,
            feature_matrix, call.watchlist, call.limit).list = <<>>
    /\ AllSimilar # <<>>

\* the number of watchlist items whose similar movies hold the position i
Frequency(i) ==
    Cardinality({k \in DOMAIN call.watchlist.items : i \in Range(SimilarOfItem(k))})

\* the place of the first discovery of the position i
Discovery(i) ==
    CHOOSE p \in DOMAIN AllSimilar :
        AllSimilar[p] = i /\ \A q \in 1..(p - 1) : AllSimilar[q] # i

\* C22: in the frequency fallback the collected movies come in non-increasing
\* order of the number of watchlist items that recommended them, movies of
\* equal frequency in the order of their first discovery, before every
\* padded movie, and no id comes twice.
FrequencyOrderKept ==
    FrequencyFallback =>
        LET L == Positions(result.list)
            collected == Range(AllSimilar)
        IN /\ \A j, k \in DOMAIN L :
                 (j < k /\ L[k] \in collected) =>
                     /\ L[j] \in collected
                     /\ \/ Frequency(L[j]) > Frequency(L[k])
                        \/ /\ Frequency(L[j]) = Frequency(L[k])
                           /\ Discovery(L[j]) < Discovery(L[k])
           /\ \A j, k \in DOMAIN L :
                 j # k => df.rows[L[j]].id # df.rows[L[k]].id

\* a movie recommended by two watchlist items returned before a movie that
\* was discovered earlier
FrequentMovieFirst ==
    /\ FrequencyFallback
    /\ Len(result.list) >= 2
    /\ Frequency(result.list[1].idx) = 2
    /\ Discovery(result.list[2].idx) < Discovery(result.list[1].idx)

\* C23: when the frequency fallback collected fewer than limit distinct
\* movies and the catalog holds enough movies that are not chosen, the
\* padding with popular movies brings the result to exactly limit records.
FallbackPaddingReachesLimit ==
    (/\ FrequencyFallback
     /\ Cardinality(Range(AllSimilar)) < call.limit
     /\ Len(df.rows) >= call.limit)
    => Len(result.list) = call.limit

\* the candidates of the call in their rank order
RankedCandidates ==
    HybridCandidates(feature_matrix.cells,
        WatchlistIndices(movie_indices, call.watchlist).indices, call.limit)

\* the place of the position i in the ranked candidates
RankOf(i) == CHOOSE p \in DOMAIN RankedCandidates : RankedCandidates[p] = i

\* the hybrid strategy ran its selection: similarity is enabled, the limit
\* is not negative, every watchlist id is an integer, one of them is known
\* to the index map, and the catalog ids are pairwise distinct
HybridSelected ==
    /\ call.op = "hybrid"
    /\ ~similarity_matrix.isNone
    /\ call.limit >= 0
    /\ ~WatchlistIndices(movie_indices, call.watchlist).raises
    /\ WatchlistIndices(movie_indices, call.watchlist).indices # <<>>
    /\ \A i, j \in DOMAIN df.rows : i # j => df.rows[i].id # df.rows[j].id

PersonalRecordsPlain ==
    call.op = "personalized" =>
        \A k \in DOMAIN result.list : result.list[k].tmp = {}

\* C26: no movie returned by the recommendations for a watchlist has an id
\* of that watchlist.
WatchlistCallExcludesWatchlist ==
    call.op = "for_watchlist" =>
        \A k \in DOMAIN result.list : result.list[k].idx \notin Watched

\* no two entries of the list have the same id
NoRepeatedId(movies) ==
    \A j, k \in DOMAIN movies : j # k => ~PyEq(movies[j].id, movies[k].id)

NoDuplicateEntries ==
    \A id \in DOMAIN user_files :
        /\ NoRepeatedId(user_files[id].watchlist)
        /\ NoRepeatedId(user_files[id].bookmarks)

AddOps == {"add_to_watchlist", "add_bookmark"}
RemoveOps == {"remove_from_watchlist", "remove_bookmark"}

\* the stored list of the current user that the call of this step works on
ListOfStep ==
    IF call'.op \in {"add_to_watchlist", "remove_from_watchlist"}
    THEN user_files[CurrentId].watchlist
    ELSE user_files[CurrentId].bookmarks

\* the id of the call of this step is in that list
IdOfStepStored ==
    LET asked == IF call'.op \in AddOps THEN Get(call'.movie, "id", NoId)
                 ELSE call'.movie_id
    IN \E k \in DOMAIN ListOfStep : PyEq(ListOfStep[k].id, asked)

AddPresentRefused ==
    (/\ call'.op \in AddOps
     /\ current_user # 0
     /\ MovieTruthy(call'.movie)
     /\ IdOfStepStored)
    => (~result'.ok /\ user_files' = user_files)

RemoveAbsentRefused ==
    (/\ call'.op \in RemoveOps
     /\ current_user # 0
     /\ ~IdOfStepStored)
    => (~result'.ok /\ user_files' = user_files)

\* C27: no stored watchlist and no stored bookmark list has two entries of
\* the same movie id; adding a movie whose id is in the list fails and
\* changes nothing, and so does removing an id that is not in the list.
ListsKeepDistinctIds ==
    []NoDuplicateEntries /\ [][AddPresentRefused /\ RemoveAbsentRefused]_vars

\* a watchlist of two movies refused a movie that it holds
AddRefusedOnFullWatchlist ==
    /\ call.op = "add_to_watchlist"
    /\ current_user # 0
    /\ MovieTruthy(call.movie)
    /\ ~result.ok
    /\ Len(user_files[CurrentId].watchlist) = 2

\* the calls that need a logged-in user refuse and change nothing, the
\* getters return the empty list
LoggedOutRefused ==
    current_user = 0 =>
        /\ call'.op \in AddOps \cup RemoveOps \cup {"update_profile"} =>
              /\ ~result'.ok
              /\ user_files' = user_files
              /\ users' = users
              /\ users_file' = users_file
        /\ call'.op \in {"get_watchlist", "get_bookmarks"} => result'.list = <<>>

LogoutLogsOut == call'.op = "logout" => current_user' = 0

OnlyLoginLogsIn ==
    (current_user = 0 /\ current_user' # 0) => (call'.op = "login" /\ result'.ok)

\* C28: nobody is logged in at the start, after a logout, and until a login
\* succeeds; while nobody is logged in, the changes of watchlist, bookmarks
\* and profile return failure and change no stored data, and get_watchlist
\* and get_bookmarks return the empty list.
LoggedOutChangesNothing ==
    /\ current_user = 0
    /\ [][LoggedOutRefused /\ LogoutLogsOut /\ OnlyLoginLogsIn]_vars

\* a movie refused after a logout, while a stored watchlist has a movie
LoggedOutAddRefused ==
    /\ call.op = "add_to_watchlist"
    /\ MovieTruthy(call.movie)
    /\ current_user = 0
    /\ ~result.ok
    /\ \E id \in DOMAIN user_files : user_files[id].watchlist # <<>>

\* the current user after this step is the user of the name and the password
\* that the login of this step was called with
LoggedInAsAsked ==
    /\ current_user' \in DOMAIN users'
    /\ Lower(users'[current_user'].username) = Lower(call'.username)
    /\ users'[current_user'].password_hash = hash_password(call'.password)

LoginDecides ==
    /\ (call'.op = "login" /\ ~result'.ok) => current_user' = current_user
    /\ (call'.op = "login" /\ result'.ok) => LoggedInAsAsked
    /\ (current_user' # current_user /\ current_user' # 0) =>
          (call'.op = "login" /\ result'.ok)
    /\ (call'.op = "logout") => current_user' = 0

\* C29: current_user is None or a stored user; it becomes a user only by a
\* login that succeeded with that user's name, compared ignoring case, and
\* that user's password, a logout makes it None, and a failed login leaves
\* it as it was.
CurrentUserLoggedIn ==
    [](current_user \in 0..Len(users)) /\ [][LoginDecides]_vars

\* a login with a wrong password for a stored name, while a user is logged in
FailedLoginKeepsSession ==
    /\ call.op = "login"
    /\ ~result.ok
    /\ call.password # <<>>
    /\ FindUser(users, call.username) # 0
    /\ current_user # 0

UniqueNames ==
    \A j, k \in DOMAIN users :
        j # k => Lower(users[j].username) # Lower(users[k].username)

\* what register does in this step
RegisterStep ==
    call'.op = "register" =>
        LET rejected ==
                \/ Len(call'.username) < USERNAME_MIN_LENGTH
                \/ Len(call'.password) < PASSWORD_MIN_LENGTH
                \/ \E k \in DOMAIN users :
                      Lower(users[k].username) = Lower(call'.username)
            new == users'[Len(users')]
        IN /\ result'.ok = ~rejected
           /\ ~result'.ok =>
                 /\ users' = users
                 /\ users_file' = users_file
                 /\ user_files' = user_files
           /\ result'.ok =>
                 /\ Len(users') = Len(users) + 1
                 /\ SubSeq(users', 1, Len(users)) = users
                 /\ users_file' = users'
                 /\ new.username = call'.username
                 /\ new.profile.preferences =
                        [favorite_genres |-> <<>>, favorite_directors |-> <<>>,
                         favorite_actors |-> <<>>]
                 /\ new.id \notin DOMAIN user_files
                 /\ DOMAIN user_files' = (DOMAIN user_files) \cup {new.id}
                 /\ user_files'[new.id] = [watchlist |-> <<>>, bookmarks |-> <<>>]
                 /\ \A id \in DOMAIN user_files : user_files'[id] = user_files[id]

\* C30: no two stored users have names that are equal ignoring case; a
\* rejected register (short name, short password, name taken in any case)
\* adds no user and no file, an accepted one adds one user with an empty
\* watchlist, empty bookmarks and empty preference lists.
RegisterKeepsNamesUnique ==
    [](UniqueNames /\ users_file = users) /\ [][RegisterStep]_vars

\* a name refused because a stored name differs from it by case only
RegisterRefusedByCase ==
    /\ call.op = "register"
    /\ ~result.ok
    /\ NameTaken(users, call.username)
    /\ ~NameTakenExactly(users, call.username)
    /\ Len(call.password) >= PASSWORD_MIN_LENGTH

====
